---- MODULE Spec2Model ----
(***************************************************************************)
(* Scheduling and publication engine of the telegram-reminder bot:         *)
(* the task store (database.py), the time rules (utils.py), the startup    *)
(* scheduling (scheduler.py) and the firing path publish_and_reschedule    *)
(* with its deletion jobs (bot.py).                                        *)
(*                                                                         *)
(* Instants are minutes since 2024-01-01T00:00 UTC.  A Python datetime is  *)
(* the record [t, aware]: aware tells whether it carries tzinfo, which     *)
(* Python's ordering comparisons depend on (mixed operands raise           *)
(* TypeError).  A TEXT column holding an ISO string is the datetime it     *)
(* parses to: isoformat/fromisoformat keep the instant and the offset.     *)
(* An optional value (None or v) is the sequence << >> or <<v>>.           *)
(***************************************************************************)
EXTENDS Integers, Sequences, FiniteSets, TLC

\* ------------------------------------------------------------ bounds
MaxTasks == 2
MaxCalls == 2
MaxRestarts == 2
MaxStoreCalls == 1
MaxInactiveCalls == 1

\* ------------------------------------------------------------ constants
HorizonDays == 365
misfire_grace_time == 3600

\* instants have the resolution of the entered times, '%d.%m.%Y %H:%M'
Minute == 1
\* the calendar day instant 0 lies on
Epoch == [year |-> 2024, month |-> 1, day |-> 1]
Hour == 60 * Minute
Day == 24 * Hour
Week == 7 * Day
Grace == misfire_grace_time \div 60

\* ------------------------------------------------------------ optional values
None == << >>
Some(v) == <<v>>
IsNone(o) == o = << >>
Val(o) == o[1]

\* ------------------------------------------------------------ datetimes
Naive(t) == [t |-> t, aware |-> FALSE]
Aware(t) == [t |-> t, aware |-> TRUE]

\* datetime + timedelta keeps the tzinfo of the datetime
PlusDelta(dt, d) == [dt EXCEPT !.t = dt.t + d]

\* a > b on datetimes: "TypeError" when exactly one operand carries tzinfo
Greater(a, b) ==
    IF a.aware # b.aware THEN "TypeError"
    ELSE IF a.t > b.t THEN "True" ELSE "False"

IsLeap(y) == ((y % 4) = 0 /\ (y % 100) # 0) \/ (y % 400) = 0

DaysInMonth(y, m) ==
    IF m = 2 THEN (IF IsLeap(y) THEN 29 ELSE 28)
    ELSE IF m \in {4, 6, 9, 11} THEN 30 ELSE 31

\* the calendar date of the day that lies d days after the first of month m of year y
RECURSIVE DateFrom(_, _, _)
DateFrom(y, m, d) ==
    IF d < DaysInMonth(y, m) THEN [year |-> y, month |-> m, day |-> d + 1]
    ELSE IF m = 12 THEN DateFrom(y + 1, 1, d - DaysInMonth(y, m))
    ELSE DateFrom(y, m + 1, d - DaysInMonth(y, m))

\* number of days from the first of January of Epoch.year to the first of month m of year y
RECURSIVE DaysBefore(_, _)
DaysBefore(y, m) ==
    IF y = Epoch.year /\ m = Epoch.month THEN 0
    ELSE IF m = 1 THEN DaysBefore(y - 1, 12) + DaysInMonth(y - 1, 12)
    ELSE DaysBefore(y, m - 1) + DaysInMonth(y, m - 1)

\* the fields of a datetime: year, month, day, hour, minute
Fields(dt) ==
    LET d == DateFrom(Epoch.year, Epoch.month, dt.t \div Day)
        r == dt.t % Day
    IN  [year |-> d.year, month |-> d.month, day |-> d.day,
         hour |-> r \div Hour, minute |-> r % Hour]

\* datetime(year, month, day, hour, minute, tzinfo=utc)
MakeAware(y, m, d, h, mi) ==
    Aware((DaysBefore(y, m) + d - 1) * Day + h * Hour + mi)

Min(a, b) == IF a < b THEN a ELSE b

\* datetime(year, month, day, hour, minute), without tzinfo
MakeNaive(y, m, d, h, mi) == Naive(MakeAware(y, m, d, h, mi).t)

NextWithoutClamp(original, recurrence, last) ==
    IF recurrence = "once" THEN None
    ELSE IF recurrence = "daily" THEN Some(PlusDelta(last, Day))
    ELSE IF recurrence = "weekly" THEN Some(PlusDelta(last, Week))
    ELSE IF recurrence = "monthly" THEN
        LET f == Fields(last)
            month == (f.month % 12) + 1
            year == f.year + (IF f.month = 12 THEN 1 ELSE 0)
        IN  Some(MakeAware(year, month, f.day, f.hour, f.minute))
    ELSE None

NextFromAnchor(original, recurrence, last) ==
    IF recurrence = "once" THEN None
    ELSE IF recurrence = "daily"
         THEN Some(PlusDelta(last, IF last = original THEN Day ELSE Day + (last.t - original.t)))
    ELSE IF recurrence = "weekly" THEN Some(PlusDelta(last, Week))
    ELSE IF recurrence = "monthly" THEN
        LET f == Fields(last)
            month == (f.month % 12) + 1
            year == f.year + (IF f.month = 12 THEN 1 ELSE 0)
            day == Min(f.day, 28)
        IN  Some(MakeAware(year, month, day, f.hour, f.minute))
    ELSE None

\* utils.next_recurrence_time(original, recurrence, last)
next_recurrence_time(original, recurrence, last) ==
    IF recurrence = "once" THEN None
    ELSE IF recurrence = "daily" THEN Some(PlusDelta(last, Day))
    ELSE IF recurrence = "weekly" THEN Some(PlusDelta(last, Week))
    ELSE IF recurrence = "monthly" THEN
        LET f == Fields(last)
            month == (f.month % 12) + 1
            year == f.year + (IF f.month = 12 THEN 1 ELSE 0)
            day == Min(f.day, 28)
        IN  Some(MakeAware(year, month, day, f.hour, f.minute))
    ELSE None

\* ------------------------------------------------------------ clock and inputs
\* the offset of config.TIMEZONE from UTC (default "UTC")
TzOffsetMinutes == 0

\* 2024-01-30T10:00 UTC
T0 == 29 * Day + 10 * Hour

\* the instants the wall clock passes through
Moments ==
    << T0, T0 + 30 * Minute, T0 + (HorizonDays - 1) * Day, T0 + HorizonDays * Day >>

BoolToInt(b) == IF b THEN 1 ELSE 0

Draft(chat, text, photo, doc, caption, at, rec, pin, notify, del) ==
    [chat_id |-> chat, text |-> text, photo_file_id |-> photo,
     document_file_id |-> doc, caption |-> caption, publish_at |-> Naive(at),
     recurrence |-> rec, pin |-> pin, notify |-> notify, delete_after_days |-> del]

\* the sessions handed to add_scheduled_message; publish_at is a UTC ISO string
\* without offset, the form every comparison of the engine is written for
Drafts ==
    { Draft(555, Some("hello"), None, None, None, T0 + 30 * Minute, "once", FALSE, TRUE, None),
      Draft(555, Some("daily"), None, None, None, T0 + 30 * Minute, "daily", TRUE, TRUE, Some(1)),
      Draft(777, None, None, Some("BQAC1"), None, T0, "monthly", FALSE, TRUE, None) }

\* the patches handed to update_scheduled_message
Patches ==
    { [publish_at |-> Naive(T0 + HorizonDays * Day - 30 * Minute),
       last_published_at |-> Some(Naive(T0)),
       original_publish_at |-> Naive(T0 + HorizonDays * Day - 30 * Minute),
       max_end_date |-> Naive(T0 + 2 * HorizonDays * Day)],
      [last_published_at |-> Some(Naive(T0))],
      [publish_at |-> Naive(T0 + (HorizonDays + 1) * Day)] }

VARIABLES
    tasks,        \* table scheduled_messages: row id -> row (ids are 1..Len)
    archive,      \* table published_messages, in insertion order
    clock,        \* index into Moments of the current instant
    jobs,         \* job store of the publication scheduler: task id -> run_date
    firings,      \* publish_and_reschedule coroutines of this process run, in launch order
    deletions,    \* pending deletion jobs, one scheduler each
    calls,        \* history: invocations of the Delivery Callback: the task row they
                  \* were made for, whether the clock was still before its publish_at,
                  \* and their outcome
    pins,         \* history: pin requests
    deleteCalls,  \* history: invocations of the Deletion Callback
    restarts,     \* number of process restarts so far
    storeCalls    \* number of cancel and edit calls so far

vars == << tasks, archive, clock, jobs, firings, deletions, calls, pins, deleteCalls,
          restarts, storeCalls >>

now == Moments[clock]
utcnow == Naive(now)

\* ------------------------------------------------------------ task store
\* database.add_scheduled_message: the row inserted for `data` at instant t
NewRow(data, id, t) ==
    [id |-> id,
     chat_id |-> data.chat_id,
     message_text |-> data.text,
     photo_file_id |-> data.photo_file_id,
     document_file_id |-> data.document_file_id,
     caption |-> data.caption,
     publish_at |-> data.publish_at,
     original_publish_at |-> data.publish_at,
     recurrence |-> data.recurrence,
     pin |-> BoolToInt(data.pin),
     notify |-> BoolToInt(data.notify),
     delete_after_days |-> data.delete_after_days,
     active |-> 1,
     last_published_at |-> None,
     max_end_date |-> Naive(t + TzOffsetMinutes + HorizonDays * Day)]

AddAnchoredAtNow(rows, data, t) ==
    Append(rows, [NewRow(data, Len(rows) + 1, t) EXCEPT !.original_publish_at = Naive(t)])

\* data['chat_id'] raises KeyError when the session holds no chat: nothing is inserted
AddRaises(data) == "chat_id" \notin DOMAIN data

\* the row gets the next id of the AUTOINCREMENT key, which the call returns
add_scheduled_message(rows, data, t) ==
    IF AddRaises(data) THEN rows ELSE Append(rows, NewRow(data, Len(rows) + 1, t))

\* database.get_message_by_id: the row, or None
get_message_by_id(rows, id) == IF id \in 1..Len(rows) THEN Some(rows[id]) ELSE None

\* database.get_all_active_messages: the ids of the active rows, ORDER BY publish_at ASC
IsSortedByPublishAt(rows, s) ==
    \A i, j \in 1..Len(s) :
        i < j => \/ rows[s[i]].publish_at.t < rows[s[j]].publish_at.t
                 \/ (rows[s[i]].publish_at.t = rows[s[j]].publish_at.t /\ s[i] < s[j])

get_all_active_messages(rows) ==
    LET act == {i \in 1..Len(rows) : rows[i].active = 1}
    IN  CHOOSE s \in [1..Cardinality(act) -> act] :
            /\ {s[i] : i \in 1..Cardinality(act)} = act
            /\ IsSortedByPublishAt(rows, s)

\* database.deactivate_message
deactivate_message(rows, id) ==
    IF id \in 1..Len(rows) THEN [rows EXCEPT ![id].active = 0] ELSE rows

DeactivateReportsChange(rows, id) == id \in 1..Len(rows) /\ rows[id].active # 0

\* `return cursor.rowcount > 0`: the UPDATE counts the row whatever its flag was
deactivate_returns(rows, id) == id \in 1..Len(rows)

UpdatableColumnsWithAnchor ==
    {"chat_id", "message_text", "photo_file_id", "document_file_id", "caption",
     "publish_at", "original_publish_at", "recurrence", "pin", "notify",
     "delete_after_days"}

\* database.update_scheduled_message
UpdatableColumns ==
    {"chat_id", "message_text", "photo_file_id", "document_file_id", "caption",
     "publish_at", "recurrence", "pin", "notify", "delete_after_days"}

ColumnValue(c, v) == IF c \in {"pin", "notify"} THEN BoolToInt(v) ELSE v

PatchedRowReactivates(row, data) ==
    [c \in DOMAIN row |->
        IF c = "active" THEN 1
        ELSE IF c \in (DOMAIN data) \cap UpdatableColumns THEN ColumnValue(c, data[c])
        ELSE row[c]]

PatchedRow(row, data) ==
    [c \in DOMAIN row |->
        IF c \in (DOMAIN data) \cap UpdatableColumns THEN ColumnValue(c, data[c]) ELSE row[c]]

update_scheduled_message(rows, id, data) ==
    IF (DOMAIN data) \cap UpdatableColumns = {} THEN rows
    ELSE IF id \in 1..Len(rows) THEN [rows EXCEPT ![id] = PatchedRow(rows[id], data)]
    ELSE rows

update_returns(rows, id, data) ==
    (DOMAIN data) \cap UpdatableColumns # {} /\ id \in 1..Len(rows)

\* ------------------------------------------------------------ scheduler.py
IsDueStrictly(publish_at, t) == publish_at.t < Naive(t).t

\* scheduler.schedule_all_jobs: `publish_at <= now`
IsDue(publish_at, t) == publish_at.t <= Naive(t).t

\* a coroutine publish_and_reschedule(id): launched by startup recovery ("startup")
\* or by the job of a queue entry ("job"); not yet run.  sent is the instant at which
\* its send call returned the message
NewFiring(id, via) ==
    [id |-> id, via |-> via, pc |-> "created", task |-> None, call |-> 0, message |-> 0,
     pinned |-> "none", sent |-> 0]

\* the coroutines schedule_all_jobs hands to application.create_task, in the order of the loop
StartupFirings(rows, t) ==
    LET msgs == get_all_active_messages(rows)
        due == SelectSeq(msgs, LAMBDA i : rows[i].active = 1 /\ IsDue(rows[i].publish_at, t))
    IN  [k \in 1..Len(due) |-> NewFiring(due[k], "startup")]

StartupJobsForAll(rows, t) ==
    LET msgs == get_all_active_messages(rows)
    IN  [i \in {msgs[k] : k \in 1..Len(msgs)} |-> Aware(rows[i].publish_at.t)]

\* the jobs schedule_all_jobs adds: id publish_<id>, DateTrigger(run_date=publish_at as UTC)
StartupJobs(rows, t) ==
    LET msgs == get_all_active_messages(rows)
        later == {i \in {msgs[k] : k \in 1..Len(msgs)} :
                     rows[i].active = 1 /\ ~IsDue(rows[i].publish_at, t)}
    IN  [i \in later |-> Aware(rows[i].publish_at.t)]

\* a job whose run is later than misfire_grace_time after its run_date is skipped
WithinGrace(run_date, t) == t - run_date.t <= Grace

\* ------------------------------------------------------------ bot.publish_and_reschedule
Truthy(o) == ~IsNone(o) /\ Val(o) # 0

FetchExists(rows, id) == id \in 1..Len(rows)

\* `if not task or not task['active']: return`
FetchActive(rows, id) == id \in 1..Len(rows) /\ rows[id].active # 0

\* content = task['message_text'] or task['caption'] or ""
Content(task) ==
    IF ~IsNone(task.message_text) /\ Val(task.message_text) # "" THEN Val(task.message_text)
    ELSE IF ~IsNone(task.caption) /\ Val(task.caption) # "" THEN Val(task.caption)
    ELSE ""

\* which send method the firing awaits
SendKind(task) ==
    IF ~IsNone(task.photo_file_id) /\ Val(task.photo_file_id) # "" THEN "photo"
    ELSE IF ~IsNone(task.document_file_id) /\ Val(task.document_file_id) # "" THEN "document"
    ELSE "text"

CallRecord(task, via, t) ==
    [id |-> task.id, via |-> via, chat_id |-> task.chat_id, kind |-> SendKind(task),
     disable_notification |-> (task.notify = 0), at |-> task.publish_at,
     early |-> (t < task.publish_at.t), result |-> "pending", message_id |-> 0]

\* the message id the platform assigns to the next delivered message
NextMessageId(log) == Cardinality({i \in 1..Len(log) : log[i].result = "ok"}) + 1

\* database.archive_published_message as called by the firing
ArchiveRow(task, msg, t) ==
    [scheduled_id |-> task.id, chat_id |-> task.chat_id, message_id |-> msg,
     content |-> Content(task), photo_file_id |-> task.photo_file_id,
     document_file_id |-> task.document_file_id, published_at |-> t,
     status |-> "published"]

ScheduleDeletionAlways(dels, task, msg, t) ==
    dels \cup {[chat_id |-> task.chat_id, message_id |-> msg,
                run_date |-> PlusDelta(Naive(t), IF Truthy(task.delete_after_days)
                                                 THEN Val(task.delete_after_days) * Day
                                                 ELSE 0)]}

\* the deletion jobs pending after the firing's `if task['delete_after_days']` block
AfterScheduleDeletion(dels, task, msg, t) ==
    IF Truthy(task.delete_after_days)
    THEN dels \cup {[chat_id |-> task.chat_id, message_id |-> msg,
                     run_date |-> PlusDelta(Naive(t), Val(task.delete_after_days) * Day)]}
    ELSE dels

\* the rescheduling block of the firing, computed from the row read at its start;
\* a TypeError of the comparison lands in the function's `except Exception`
Rescheduled(rows, task, t) ==
    IF task.recurrence # "once" THEN
        LET next_time == next_recurrence_time(task.original_publish_at, task.recurrence,
                                              task.publish_at)
        IN  IF IsNone(next_time) THEN rows
            ELSE LET over == Greater(Val(next_time), task.max_end_date)
                 IN  IF over = "TypeError" THEN rows
                     ELSE IF over = "True" THEN deactivate_message(rows, task.id)
                     ELSE [rows EXCEPT ![task.id].publish_at = Val(next_time),
                                       ![task.id].last_published_at = Some(Naive(t))]
    ELSE rows

\* ------------------------------------------------------------ database.get_db_connection
\* every coroutine, job and handler of the process runs on the thread of the event loop
LoopThread == "MainThread"

\* `with _db_lock:` around the yield: a firing keeps the lock from its SELECT to its
\* end, the awaits of the send call and of the pin request included
LockOwner ==
    IF \E k \in DOMAIN firings : firings[k].pc \in {"sending", "pinning"}
    THEN Some(LoopThread) ELSE None

AcquireLock(owner, thread) == IsNone(owner)

\* threading.RLock: free, or owned by the calling thread
AcquireRLock(owner, thread) == IF IsNone(owner) THEN TRUE ELSE Val(owner) = thread

\* ------------------------------------------------------------ initial state
\* a fresh database (init_db) and a started scheduler with nothing to schedule
Init ==
    /\ tasks = << >>
    /\ archive = << >>
    /\ clock = 1
    /\ jobs = << >>
    /\ firings = << >>
    /\ deletions = {}
    /\ calls = << >>
    /\ pins = {}
    /\ deleteCalls = << >>
    /\ restarts = 0
    /\ storeCalls = 0

\* ------------------------------------------------------------ operations
\* the wall clock reaches the next instant
Tick ==
    /\ clock < Len(Moments)
    /\ clock' = clock + 1
    /\ UNCHANGED << tasks, archive, jobs, firings, deletions, calls, pins, deleteCalls, restarts, storeCalls >>

\* select_delete_days: the finished session is stored by add_scheduled_message,
\* which takes publish_at as given; the scheduler is not told
Submit(data) ==
    /\ Len(tasks) < MaxTasks
    /\ AcquireRLock(LockOwner, LoopThread)
    /\ tasks' = add_scheduled_message(tasks, data, now)
    /\ UNCHANGED << archive, clock, jobs, firings, deletions, calls, pins, deleteCalls, restarts, storeCalls >>

\* how many cancel and edit calls on row id are explored: MaxStoreCalls on any row,
\* and MaxInactiveCalls more on a row that is already inactive
StoreBudget(id) ==
    MaxStoreCalls
    + (IF id \in 1..Len(tasks) /\ tasks[id].active = 0 THEN MaxInactiveCalls ELSE 0)

\* a cancellation: the store's deactivate_message(id), which touches the store only
Cancel(id) ==
    /\ storeCalls < StoreBudget(id)
    /\ AcquireRLock(LockOwner, LoopThread)
    /\ storeCalls' = storeCalls + 1
    /\ tasks' = deactivate_message(tasks, id)
    /\ UNCHANGED << archive, clock, jobs, firings, deletions, calls, pins, deleteCalls, restarts >>

\* an edit: the store's update_scheduled_message(id, data), which touches the store only
Edit(id, data) ==
    /\ storeCalls < StoreBudget(id)
    /\ AcquireRLock(LockOwner, LoopThread)
    /\ storeCalls' = storeCalls + 1
    /\ tasks' = update_scheduled_message(tasks, id, data)
    /\ UNCHANGED << archive, clock, jobs, firings, deletions, calls, pins, deleteCalls, restarts >>

\* the process is stopped and started again: main() -> start_scheduler ->
\* schedule_all_jobs; schedulers and coroutines of the old process are gone
Restart ==
    /\ restarts < MaxRestarts
    /\ restarts' = restarts + 1
    /\ AcquireRLock(None, LoopThread)
    /\ firings' = StartupFirings(tasks, now)
    /\ jobs' = StartupJobs(tasks, now)
    /\ deletions' = {}
    /\ UNCHANGED << tasks, archive, clock, calls, pins, deleteCalls, storeCalls >>

\* the publication scheduler wakes up for a due job: it runs it, or skips it as misfired
WakeUp(id) ==
    /\ id \in DOMAIN jobs
    /\ jobs[id].t <= now
    /\ jobs' = [i \in (DOMAIN jobs) \ {id} |-> jobs[i]]
    /\ firings' = IF WithinGrace(jobs[id], now) THEN Append(firings, NewFiring(id, "job"))
                  ELSE firings
    /\ UNCHANGED << tasks, archive, clock, deletions, calls, pins, deleteCalls, restarts, storeCalls >>

\* publish_and_reschedule up to its first await: the re-fetch, then the send call
FireFetch(k) ==
    /\ k \in DOMAIN firings
    /\ firings[k].pc = "created"
    /\ AcquireRLock(LockOwner, LoopThread)
    /\ LET id == firings[k].id
       IN  IF FetchActive(tasks, id)
           THEN /\ Len(calls) < MaxCalls
                /\ calls' = Append(calls, CallRecord(tasks[id], firings[k].via, now))
                /\ firings' = [firings EXCEPT ![k].pc = "sending",
                                              ![k].task = Some(tasks[id]),
                                              ![k].call = Len(calls) + 1]
           ELSE /\ calls' = calls
                /\ firings' = [firings EXCEPT ![k].pc = "discarded"]
    /\ UNCHANGED << tasks, archive, clock, jobs, deletions, pins, deleteCalls, restarts, storeCalls >>

\* the rest of publish_and_reschedule once the message is sent and pinning is over
\* (pinned: "none" when no pin was asked for, else how the request ended):
\* archive, deletion job, rescheduling
Complete(k, msg, pinned) ==
    LET task == Val(firings[k].task)
    IN  /\ AcquireRLock(LockOwner, LoopThread)
        /\ archive' = Append(archive, ArchiveRow(task, msg, now))
        /\ deletions' = AfterScheduleDeletion(deletions, task, msg, now)
        /\ tasks' = Rescheduled(tasks, task, now)
        /\ firings' = [firings EXCEPT ![k].pc = "done", ![k].message = msg,
                                      ![k].pinned = pinned,
                                      ![k].sent = IF firings[k].pc = "sending" THEN now ELSE @]

\* the send call returns the message
DeliverOk(k) ==
    /\ k \in DOMAIN firings
    /\ firings[k].pc = "sending"
    /\ LET task == Val(firings[k].task)
           msg == NextMessageId(calls)
       IN  /\ calls' = [calls EXCEPT ![firings[k].call].result = "ok",
                                     ![firings[k].call].message_id = msg]
           /\ IF task.pin # 0
              THEN /\ pins' = pins \cup {[chat_id |-> task.chat_id, message_id |-> msg]}
                   /\ firings' = [firings EXCEPT ![k].pc = "pinning", ![k].message = msg,
                                                 ![k].sent = now]
                   /\ UNCHANGED << tasks, archive, deletions >>
              ELSE /\ pins' = pins
                   /\ Complete(k, msg, "none")
    /\ UNCHANGED << clock, jobs, deleteCalls, restarts, storeCalls >>

DeliverErrorDeactivates(k) ==
    /\ k \in DOMAIN firings
    /\ firings[k].pc = "sending"
    /\ calls' = [calls EXCEPT ![firings[k].call].result = "error"]
    /\ firings' = [firings EXCEPT ![k].pc = "failed"]
    /\ tasks' = deactivate_message(tasks, firings[k].id)
    /\ UNCHANGED << archive, clock, jobs, deletions, pins, deleteCalls, restarts, storeCalls >>

\* the send call raises: `except Exception` logs and the coroutine ends
DeliverError(k) ==
    /\ k \in DOMAIN firings
    /\ firings[k].pc = "sending"
    /\ calls' = [calls EXCEPT ![firings[k].call].result = "error"]
    /\ firings' = [firings EXCEPT ![k].pc = "failed"]
    /\ UNCHANGED << tasks, archive, clock, jobs, deletions, pins, deleteCalls, restarts, storeCalls >>

PinDoneAbortsOnFailure(k, ok) ==
    /\ k \in DOMAIN firings
    /\ firings[k].pc = "pinning"
    /\ IF ok THEN Complete(k, firings[k].message, "ok")
             ELSE /\ firings' = [firings EXCEPT ![k].pc = "done", ![k].pinned = "failed"]
                  /\ UNCHANGED << tasks, archive, deletions >>
    /\ UNCHANGED << clock, jobs, calls, pins, deleteCalls, restarts, storeCalls >>

\* pin_chat_message returns or raises; a failure is logged and the firing goes on
PinDone(k, ok) ==
    /\ k \in DOMAIN firings
    /\ firings[k].pc = "pinning"
    /\ Complete(k, firings[k].message, IF ok THEN "ok" ELSE "failed")
    /\ UNCHANGED << clock, jobs, calls, pins, deleteCalls, restarts, storeCalls >>

DeletionWakeRetries(job, ok) ==
    /\ job \in deletions
    /\ job.run_date.t <= now
    /\ deletions' = IF ok THEN deletions \ {job} ELSE deletions
    /\ deleteCalls' =
          IF WithinGrace(job.run_date, now)
          THEN Append(deleteCalls, [chat_id |-> job.chat_id,
                                    message_id |-> job.message_id, ok |-> ok])
          ELSE deleteCalls
    /\ UNCHANGED << tasks, archive, clock, jobs, firings, calls, pins, restarts, storeCalls >>

\* a deletion scheduler wakes up for its job: delete_message runs (a failure is
\* logged), or the job is skipped as misfired
DeletionWake(job, ok) ==
    /\ job \in deletions
    /\ job.run_date.t <= now
    /\ deletions' = deletions \ {job}
    /\ deleteCalls' =
          IF WithinGrace(job.run_date, now)
          THEN Append(deleteCalls, [chat_id |-> job.chat_id,
                                    message_id |-> job.message_id, ok |-> ok])
          ELSE deleteCalls
    /\ UNCHANGED << tasks, archive, clock, jobs, firings, calls, pins, restarts, storeCalls >>

Next ==
    \/ Tick
    \/ \E data \in Drafts : Submit(data)
    \/ \E id \in 1..MaxTasks : Cancel(id)
    \/ \E id \in 1..MaxTasks, data \in Patches : Edit(id, data)
    \/ Restart
    \/ \E id \in DOMAIN jobs : WakeUp(id)
    \/ \E k \in DOMAIN firings : FireFetch(k)
    \/ \E k \in DOMAIN firings : DeliverOk(k)
    \/ \E k \in DOMAIN firings : DeliverError(k)
    \/ \E k \in DOMAIN firings, ok \in BOOLEAN : PinDone(k, ok)
    \/ \E job \in deletions, ok \in BOOLEAN : DeletionWake(job, ok)

Spec == Init /\ [][Next]_vars

\* ------------------------------------------------------------ the recurrence rule alone
\* the series of one stored task, advanced by next_recurrence_time as the firing's
\* UPDATE advances it, from anchors on the days and months the rule treats apart
SeriesAnchors ==
    { MakeNaive(2024, m, d, 10, 0) : m \in {1, 11, 12}, d \in {1, 15, 28, 29, 30} }
    \cup { MakeNaive(2024, 1, 31, 23, 59), MakeNaive(2024, 2, 29, 0, 5),
           MakeNaive(2024, 12, 31, 23, 59) }

SeriesDrafts ==
    { Draft(555, Some("series"), None, None, None, at.t, rec, FALSE, TRUE, None) :
          at \in SeriesAnchors, rec \in {"once", "daily", "weekly", "monthly"} }

\* the last instant a series is followed to: 2025-03-01T00:00
SeriesEnd == MakeNaive(2025, 3, 1, 0, 0).t

SeriesInit ==
    /\ tasks \in { add_scheduled_message(<< >>, data, T0) : data \in SeriesDrafts }
    /\ archive = << >>
    /\ clock = 1
    /\ jobs = << >>
    /\ firings = << >>
    /\ deletions = {}
    /\ calls = << >>
    /\ pins = {}
    /\ deleteCalls = << >>
    /\ restarts = 0
    /\ storeCalls = 0

\* next_time = next_recurrence_time(original_publish_at, recurrence, publish_at), then
\* UPDATE scheduled_messages SET publish_at = next_time
Recur ==
    LET next_time == next_recurrence_time(tasks[1].original_publish_at,
                                          tasks[1].recurrence, tasks[1].publish_at)
    IN  /\ ~IsNone(next_time)
        /\ Val(next_time).t <= SeriesEnd
        /\ tasks' = [tasks EXCEPT ![1].publish_at = Val(next_time)]
        /\ UNCHANGED << archive, clock, jobs, firings, deletions, calls, pins, deleteCalls,
                        restarts, storeCalls >>

SeriesNext ==
    \/ Tick
    \/ Recur

SeriesSpec == SeriesInit /\ [][SeriesNext]_vars

\* ------------------------------------------------------------ the task store alone
\* a session without a chat, and a session without text, photo and document
DraftWithoutDestination ==
    [text |-> Some("hello"), photo_file_id |-> None, document_file_id |-> None,
     caption |-> None, publish_at |-> Naive(T0 + 30 * Minute), recurrence |-> "once",
     pin |-> FALSE, notify |-> TRUE, delete_after_days |-> None]

DraftWithoutPayload ==
    Draft(555, None, None, None, None, T0 + 30 * Minute, "once", FALSE, TRUE, None)

StoreDrafts == Drafts \cup {DraftWithoutDestination, DraftWithoutPayload}

StoreNext ==
    \/ \E data \in StoreDrafts : Submit(data)
    \/ \E id \in 1..MaxTasks : Cancel(id)
    \/ \E id \in 1..MaxTasks, data \in Patches : Edit(id, data)

StoreSpec == Init /\ [][StoreNext]_vars

\* ------------------------------------------------------------ notions the claims use
\* the number of coroutines of this process run that fire task i
FiringsOf(fs, i) == Cardinality({k \in DOMAIN fs : fs[k].id = i})

\* firing k passes, in this step, from waiting on the platform to its end after a delivery
Completes(k) ==
    /\ k \in DOMAIN firings
    /\ firings[k].pc \in {"sending", "pinning"}
    /\ restarts' = restarts
    /\ k \in DOMAIN firings'
    /\ firings'[k].pc = "done"

\* firing k, not yet run, takes its first step (the re-fetch) in this step
Fetches(k) ==
    /\ k \in DOMAIN firings
    /\ firings[k].pc = "created"
    /\ restarts' = restarts
    /\ k \in DOMAIN firings'
    /\ firings'[k] # firings[k]

\* the Delivery Callback of firing k fails in this step
DeliveryFails(k) ==
    /\ k \in DOMAIN firings
    /\ firings[k].pc = "sending"
    /\ restarts' = restarts
    /\ k \in DOMAIN firings'
    /\ firings'[k].pc = "failed"

\* the next occurrence of the row as the firing read it
NextOccurrence(task) ==
    next_recurrence_time(task.original_publish_at, task.recurrence, task.publish_at)

\* ------------------------------------------------------------ claims

\* C1: no occurrence is delivered more than once: no two successful invocations of
\* the Delivery Callback are for the same task at the same next_fire_at
C1_NoOccurrenceDeliveredTwice ==
    \A i, j \in DOMAIN calls :
        (i < j /\ calls[i].result = "ok" /\ calls[j].result = "ok"
               /\ calls[i].id = calls[j].id)
        => calls[i].at # calls[j].at

\* C2: once a firing of a one-shot task has ended after a successful delivery, the
\* task is inactive and list_active does not return it
C2_OneShotDeactivatedAfterDelivery ==
    \A k \in DOMAIN firings :
        (firings[k].pc = "done" /\ Val(firings[k].task).recurrence = "once")
        => /\ tasks[firings[k].id].active = 0
           /\ \A n \in DOMAIN get_all_active_messages(tasks) :
                  get_all_active_messages(tasks)[n] # firings[k].id

\* C3: at startup every active task that is due gets exactly one firing and no queue
\* entry, every active task that is not yet due gets no firing and one queue entry at
\* its next_fire_at, an inactive task gets neither; and a queue entry launches a
\* firing only once the clock has reached its instant
C3_StartupRecovery ==
    [][ /\ Restart =>
             \A i \in DOMAIN tasks :
                 /\ (tasks[i].active = 1 /\ tasks[i].publish_at.t <= now)
                    => /\ FiringsOf(firings', i) = 1
                       /\ \A k \in DOMAIN firings' :
                              firings'[k].id = i => firings'[k].pc = "created"
                       /\ i \notin DOMAIN jobs'
                 /\ (tasks[i].active = 1 /\ tasks[i].publish_at.t > now)
                    => /\ FiringsOf(firings', i) = 0
                       /\ i \in DOMAIN jobs'
                       /\ jobs'[i].t = tasks[i].publish_at.t
                 /\ tasks[i].active = 0
                    => /\ FiringsOf(firings', i) = 0
                       /\ i \notin DOMAIN jobs'
        /\ \A i \in DOMAIN tasks :
               (restarts' = restarts /\ FiringsOf(firings', i) > FiringsOf(firings, i))
               => /\ i \in DOMAIN jobs
                  /\ jobs[i].t <= now
                  /\ i \notin DOMAIN jobs'
      ]_vars

C3_Witness ==
    /\ restarts > 0
    /\ \E i, j \in DOMAIN tasks :
          /\ tasks[i].active = 1 /\ tasks[i].publish_at.t <= now
          /\ \E k \in DOMAIN firings : firings[k].id = i /\ firings[k].pc = "created"
          /\ tasks[j].active = 1 /\ tasks[j].publish_at.t > now
          /\ j \in DOMAIN jobs

\* C4: a submission while the engine runs gives the new task a queue entry at its
\* first_fire_at (or a firing, when that instant has already passed)
C4_SubmitIsEnqueued ==
    [][ (\E data \in Drafts : Submit(data))
        => LET id == Len(tasks')
           IN  \/ (id \in DOMAIN jobs' /\ jobs'[id].t = tasks'[id].publish_at.t)
               \/ FiringsOf(firings', id) > 0
      ]_vars

\* C5: a firing that advances next_fire_at leaves a queue entry for the task at the
\* new next_fire_at
C5_RescheduledIsReEnqueued ==
    [][ \A k \in DOMAIN firings :
            (Completes(k)
             /\ tasks'[firings[k].id].publish_at # tasks[firings[k].id].publish_at)
            => /\ firings[k].id \in DOMAIN jobs'
               /\ jobs'[firings[k].id].t = tasks'[firings[k].id].publish_at.t
      ]_vars

\* C6: a successful firing of a recurring task (not edited meanwhile) whose next
\* occurrence is not after max_end_at persists that occurrence as next_fire_at and
\* leaves the task active
C6_RecurringAdvances ==
    [][ \A k \in DOMAIN firings :
            (/\ Completes(k)
             /\ tasks[firings[k].id] = Val(firings[k].task)
             /\ Val(firings[k].task).recurrence \in {"daily", "weekly", "monthly"}
             /\ Val(NextOccurrence(Val(firings[k].task))).t
                    <= Val(firings[k].task).max_end_date.t)
            => /\ tasks'[firings[k].id].publish_at.t
                      = Val(NextOccurrence(Val(firings[k].task))).t
               /\ tasks'[firings[k].id].active = 1
      ]_vars

\* C7: a successful firing of a recurring task (not edited meanwhile) whose next
\* occurrence is absent or after max_end_at deactivates the task and does not
\* advance next_fire_at
C7_ExhaustedIsDeactivated ==
    [][ \A k \in DOMAIN firings :
            (/\ Completes(k)
             /\ tasks[firings[k].id] = Val(firings[k].task)
             /\ Val(firings[k].task).recurrence # "once"
             /\ \/ IsNone(NextOccurrence(Val(firings[k].task)))
                \/ Val(NextOccurrence(Val(firings[k].task))).t
                       > Val(firings[k].task).max_end_date.t)
            => /\ tasks'[firings[k].id].active = 0
               /\ tasks'[firings[k].id].publish_at = tasks[firings[k].id].publish_at
      ]_vars

\* C8: a firing that makes its re-fetch after the task was deactivated ends there:
\* no Delivery Callback, no archive record, no pin, no deletion job, no task changed
C8_CancelledIsDiscarded ==
    [][ \A k \in DOMAIN firings :
            (/\ Fetches(k)
             /\ firings[k].id \in DOMAIN tasks
             /\ tasks[firings[k].id].active = 0)
            => /\ firings'[k].pc = "discarded"
               /\ calls' = calls
               /\ archive' = archive
               /\ pins' = pins
               /\ deletions' = deletions
               /\ tasks' = tasks
      ]_vars

C8_Witness ==
    \E k \in DOMAIN firings :
        /\ firings[k].pc = "discarded"
        /\ tasks[firings[k].id].active = 0
        /\ \A n \in DOMAIN calls : calls[n].id # firings[k].id

\* C9: a firing launched from a queue entry never invokes the Delivery Callback
\* while the clock is still before the next_fire_at the store holds for the task
\* at that moment
C9_NeverDeliveredBeforeStoredTime ==
    \A n \in DOMAIN calls : calls[n].via = "job" => ~calls[n].early

\* C10: a failure of the Delivery Callback changes no task, appends no archive
\* record, requests no pin, enqueues no deletion job, and ends only that firing:
\* the queue and the other firings stay as they were
C10_DeliveryFailureChangesNothing ==
    [][ \A k \in DOMAIN firings :
            DeliveryFails(k)
            => /\ tasks' = tasks
               /\ archive' = archive
               /\ pins' = pins
               /\ deletions' = deletions
               /\ jobs' = jobs
               /\ \A m \in DOMAIN firings : m # k => firings'[m] = firings[m]
      ]_vars

C10_Witness ==
    \E k \in DOMAIN firings :
        /\ firings[k].pc = "failed"
        /\ calls[firings[k].call].result = "error"
        /\ tasks[firings[k].id] = Val(firings[k].task)

\* C11: every active task has its next_fire_at at or before its max_end_at
C11_ActiveWithinHorizon ==
    \A i \in DOMAIN tasks :
        tasks[i].active = 1 => tasks[i].publish_at.t <= tasks[i].max_end_date.t

\* C12: no step changes any field of a task that is inactive
C12_InactiveIsImmutable ==
    [][ \A i \in DOMAIN tasks : tasks[i].active = 0 => tasks'[i] = tasks[i] ]_vars

\* C13: no step sets the active flag of an inactive task back to true, and no step
\* invokes the Delivery Callback for a task that is inactive when the step begins
C13_DeactivationIsTerminal ==
    [][ \A i \in DOMAIN tasks :
            tasks[i].active = 0
            => /\ tasks'[i].active = 0
               /\ \A n \in DOMAIN calls' : n > Len(calls) => calls'[n].id # i
      ]_vars

\* an inactive task that got a further store call after it became inactive, in a
\* process run in which a firing of it has ended
C13_Witness ==
    \E i \in DOMAIN tasks :
        /\ tasks[i].active = 0
        /\ storeCalls > MaxStoreCalls
        /\ restarts > 0
        /\ \E k \in DOMAIN firings : firings[k].id = i /\ firings[k].pc = "done"

\* C14: a submission followed by a get of the returned id yields a task whose
\* first_fire_at and next_fire_at are the requested time, that is active, and that
\* carries the submitted destination, payload, recurrence and flags; the returned id
\* is the id of no task created before
C14_CreateThenGet ==
    [][ \A data \in Drafts :
            Submit(data)
            => LET id == Len(tasks')
                   got == get_message_by_id(tasks', id)
               IN  /\ ~IsNone(got)
                   /\ Val(got).id = id
                   /\ Val(got).publish_at = data.publish_at
                   /\ Val(got).original_publish_at = data.publish_at
                   /\ Val(got).active = 1
                   /\ Val(got).chat_id = data.chat_id
                   /\ Val(got).message_text = data.text
                   /\ Val(got).photo_file_id = data.photo_file_id
                   /\ Val(got).document_file_id = data.document_file_id
                   /\ Val(got).caption = data.caption
                   /\ Val(got).recurrence = data.recurrence
                   /\ Val(got).pin = BoolToInt(data.pin)
                   /\ Val(got).notify = BoolToInt(data.notify)
                   /\ Val(got).delete_after_days = data.delete_after_days
                   /\ \A j \in DOMAIN tasks : tasks[j].id # id
                   /\ \A j \in DOMAIN tasks : tasks'[j] = tasks[j]
      ]_vars

\* two tasks created one after the other, the second while the clock differs from
\* its requested time
C14_Witness ==
    /\ Len(tasks) = 2
    /\ tasks[1].id # tasks[2].id
    /\ tasks[2].publish_at = tasks[2].original_publish_at
    /\ tasks[2].publish_at.t # now
    /\ tasks[2].active = 1
    /\ IsNone(tasks[2].last_published_at)

\* C15: when the delivery succeeded and the pin request fails, the firing goes on as
\* after a delivery: the delivery stays, one archive record for it is appended, the
\* deletion job is enqueued when delete_after_days is set, and the recurrence step
\* is performed
C15_PinFailureIsNotFatal ==
    [][ \A k \in DOMAIN firings :
            (/\ firings[k].pc = "pinning"
             /\ k \in DOMAIN firings'
             /\ firings'[k].pinned = "failed")
            => LET task == Val(firings[k].task)
                   msg == firings[k].message
               IN  /\ firings'[k].pc = "done"
                   /\ calls' = calls
                   /\ calls[firings[k].call].result = "ok"
                   /\ Len(archive') = Len(archive) + 1
                   /\ archive'[Len(archive')].scheduled_id = task.id
                   /\ archive'[Len(archive')].message_id = msg
                   /\ Truthy(task.delete_after_days)
                      => \E job \in deletions' \ deletions :
                             job.chat_id = task.chat_id /\ job.message_id = msg
                   /\ tasks' = Rescheduled(tasks, task, now)
      ]_vars

\* a firing that ended after a failed pin, with its archive record, its deletion job
\* and its task advanced
C15_Witness ==
    \E k \in DOMAIN firings :
        /\ firings[k].pc = "done"
        /\ firings[k].pinned = "failed"
        /\ \E n \in DOMAIN archive : archive[n].message_id = firings[k].message
        /\ \E job \in deletions : job.message_id = firings[k].message
        /\ tasks[firings[k].id].publish_at # Val(firings[k].task).publish_at

\* the deletion jobs a step enqueues
Enqueued == deletions' \ deletions

C17_DeletionOnceAndSwallowed ==
    [][ Len(deleteCalls') > Len(deleteCalls)
        => /\ Len(deleteCalls') = Len(deleteCalls) + 1
           /\ \A n \in DOMAIN deleteCalls : deleteCalls'[n] = deleteCalls[n]
           /\ LET call == deleteCalls'[Len(deleteCalls')]
              IN  /\ \E job \in deletions :
                         /\ job.chat_id = call.chat_id
                         /\ job.message_id = call.message_id
                         /\ job.run_date.t <= now
                         /\ deletions' = deletions \ {job}
                  /\ \A n \in DOMAIN deleteCalls :
                         ~(/\ deleteCalls[n].chat_id = call.chat_id
                           /\ deleteCalls[n].message_id = call.message_id)
           /\ tasks' = tasks
           /\ archive' = archive
           /\ jobs' = jobs
           /\ firings' = firings
      ]_vars

\* a Deletion Callback that failed, with its job gone
C17_Witness ==
    \E n \in DOMAIN deleteCalls :
        /\ ~deleteCalls[n].ok
        /\ \A job \in deletions : job.message_id # deleteCalls[n].message_id

\* C18: once a firing has ended after a successful delivery, the task's
\* last_published_at is set
C18_LastPublishedAtSet ==
    \A k \in DOMAIN firings :
        firings[k].pc = "done" => ~IsNone(tasks[firings[k].id].last_published_at)

\* the number of archive records that reference task i
ArchivedOf(i) == Cardinality({n \in DOMAIN archive : archive[n].scheduled_id = i})

\* the number of successful deliveries of task i
DeliveredOf(i) == Cardinality({n \in DOMAIN calls : calls[n].id = i /\ calls[n].result = "ok"})

\* C19: for every task that has no firing waiting between its delivery and its
\* archive record, the number of archive records that reference it equals the
\* number of its successful deliveries
C19_ArchiveMatchesDeliveries ==
    \A i \in DOMAIN tasks :
        (\A k \in DOMAIN firings : firings[k].id = i => firings[k].pc # "pinning")
        => ArchivedOf(i) = DeliveredOf(i)

\* the firings of task i that are between their re-fetch and their end
InFlight(i) == {k \in DOMAIN firings : firings[k].id = i /\ firings[k].pc \in {"sending", "pinning"}}

\* C20: no task has two firings in flight at the same time
C20_OneFiringInFlight ==
    \A i \in DOMAIN tasks : Cardinality(InFlight(i)) <= 1

\* two tasks in flight at once, one fired by startup recovery and one by its queue entry
C20_Witness ==
    \E i, j \in DOMAIN tasks :
        /\ i # j
        /\ \E k \in InFlight(i) : firings[k].via = "startup"
        /\ \E k \in InFlight(j) : firings[k].via = "job"

\* C21: a monthly step lands in the next calendar month (January of the next year
\* after December), on day min(day, 28), at the same hour and minute; so every
\* instant of the series after its anchor is on day min(day of the anchor, 28)
C21_MonthlyStep ==
    [][ (Recur /\ tasks[1].recurrence = "monthly")
        => LET a == Fields(tasks[1].publish_at)
               b == Fields(tasks'[1].publish_at)
           IN  /\ b.month = (IF a.month = 12 THEN 1 ELSE a.month + 1)
               /\ b.year = (IF a.month = 12 THEN a.year + 1 ELSE a.year)
               /\ b.day = Min(a.day, 28)
               /\ b.hour = a.hour
               /\ b.minute = a.minute
               /\ b.day = Min(Fields(tasks[1].original_publish_at).day, 28)
      ]_vars

\* a series anchored on 2024-12-31T23:59 that has passed January and stands on
\* 2025-02-28T23:59
C21_Witness ==
    /\ tasks # << >>
    /\ tasks[1].recurrence = "monthly"
    /\ tasks[1].original_publish_at = MakeNaive(2024, 12, 31, 23, 59)
    /\ tasks[1].publish_at.t = MakeNaive(2025, 2, 28, 23, 59).t

\* C22: the result of next_occurrence is determined by (recurrence, last_fire_at),
\* whatever the clock and the anchor: none for a one-shot task, last_fire_at + 24 h
\* for a daily and last_fire_at + 7 days for a weekly one
C22_NextOccurrenceIsPure ==
    [][ /\ tasks # << >> /\ tasks[1].recurrence = "once" => ~ENABLED Recur
        /\ (Recur /\ tasks[1].recurrence = "daily")
           => tasks'[1].publish_at.t = tasks[1].publish_at.t + 24 * Hour
        /\ (Recur /\ tasks[1].recurrence = "weekly")
           => tasks'[1].publish_at.t = tasks[1].publish_at.t + 7 * 24 * Hour
      ]_vars

\* a daily series two steps after its anchor, computed at a later clock instant
C22_Witness ==
    /\ tasks # << >>
    /\ tasks[1].recurrence = "daily"
    /\ tasks[1].publish_at.t = tasks[1].original_publish_at.t + 2 * Day
    /\ clock > 1

MissingDestination(data) == "chat_id" \notin DOMAIN data

MissingPayload(data) ==
    IsNone(data.text) /\ IsNone(data.photo_file_id) /\ IsNone(data.document_file_id)

\* C23: a create of a draft without destination or without payload persists no task
C23_CreateRejectsIncompleteDraft ==
    [][ \A data \in StoreDrafts :
            (Submit(data) /\ (MissingDestination(data) \/ MissingPayload(data)))
            => tasks' = tasks
      ]_vars

\* C24: deactivate on an existing task reports success, whether the task was active
\* or not, sets its active flag to false and changes nothing else, so that a second
\* deactivate leaves the store as the first did; on an unknown id it reports
\* not-found and changes nothing
C24_DeactivateIsIdempotent ==
    [][ \A id \in 1..MaxTasks :
            Cancel(id)
            => IF id \in DOMAIN tasks
               THEN /\ deactivate_returns(tasks, id)
                    /\ tasks' = [tasks EXCEPT ![id].active = 0]
                    /\ deactivate_returns(tasks', id)
                    /\ deactivate_message(tasks', id) = tasks'
               ELSE /\ ~deactivate_returns(tasks, id)
                    /\ tasks' = tasks
      ]_vars

\* a task that was deactivated twice, all its other fields as created, beside an
\* active one
C24_Witness ==
    /\ storeCalls = MaxStoreCalls + MaxInactiveCalls
    /\ \E i, j \in DOMAIN tasks :
           /\ tasks[i].active = 0
           /\ tasks[i].publish_at = tasks[i].original_publish_at
           /\ tasks[j].active = 1

\* C25: an update of an existing task reports success, sets every field named in
\* the patch to the patched value and leaves every other field of the task and
\* every other task as they were
C25_UpdateSetsPatchedFields ==
    [][ \A id \in DOMAIN tasks, data \in Patches :
            Edit(id, data)
            => /\ update_returns(tasks, id, data)
               /\ \A c \in DOMAIN tasks[id] :
                      tasks'[id][c] = IF c \in DOMAIN data THEN data[c] ELSE tasks[id][c]
               /\ \A j \in DOMAIN tasks : j # id => tasks'[j] = tasks[j]
      ]_vars

\* C26: no step changes the first_fire_at (original_publish_at) or the max_end_at
\* (max_end_date) of an existing task, and create stamps first_fire_at with the
\* draft's fire time
C26_AnchorAndHorizonNeverChange ==
    [][ /\ Len(tasks') >= Len(tasks)
        /\ \A i \in DOMAIN tasks :
               /\ tasks'[i].original_publish_at = tasks[i].original_publish_at
               /\ tasks'[i].max_end_date = tasks[i].max_end_date
        /\ \A i \in (DOMAIN tasks') \ (DOMAIN tasks) :
               tasks'[i].original_publish_at = tasks'[i].publish_at
      ]_vars

\* a task that a firing rescheduled and an edit then moved, after a restart
C26_Witness ==
    \E i \in DOMAIN tasks :
        /\ ~IsNone(tasks[i].last_published_at)
        /\ tasks[i].publish_at.t > tasks[i].original_publish_at.t + Day
        /\ storeCalls > 0
        /\ restarts > 0

\* C27: once a delivery of an occurrence failed, the Delivery Callback is never
\* invoked again for the same task at the same next_fire_at
C27_FailedOccurrenceIsNotRetried ==
    \A i, j \in DOMAIN calls :
        (i < j /\ calls[i].result = "error" /\ calls[j].id = calls[i].id)
        => calls[j].at # calls[i].at

\* C28: when the next_fire_at of a task was edited while its firing waited for the
\* delivery, the firing does not overwrite the edit: it leaves the edited value or
\* advances from it
C28_FiringKeepsConcurrentEdit ==
    [][ \A k \in DOMAIN firings :
            (Completes(k)
               /\ tasks[firings[k].id].publish_at # Val(firings[k].task).publish_at)
            => LET row == tasks[firings[k].id]
               IN  \/ tasks'[firings[k].id].publish_at = row.publish_at
                   \/ /\ ~IsNone(NextOccurrence(row))
                      /\ tasks'[firings[k].id].publish_at = Val(NextOccurrence(row))
      ]_vars

\* C29: while a firing waits for its Delivery Callback, the store lock it holds can
\* be taken by every other caller: another firing starts, another firing that
\* waits ends, and create, cancel, edit and list go through
C29_StuckDeliveryBlocksNobody ==
    \A k \in DOMAIN firings :
        firings[k].pc = "sending"
        => /\ AcquireRLock(LockOwner, LoopThread)
           /\ \A m \in DOMAIN firings :
                  /\ (m # k /\ firings[m].pc = "created"
                        /\ (Len(calls) < MaxCalls \/ ~FetchActive(tasks, firings[m].id)))
                     => ENABLED FireFetch(m)
                  /\ (m # k /\ firings[m].pc = "sending") => ENABLED DeliverOk(m)
           /\ Len(tasks) < MaxTasks => ENABLED (\E data \in Drafts : Submit(data))
           /\ storeCalls < MaxStoreCalls
              => /\ ENABLED (\E id \in 1..MaxTasks : Cancel(id))
                 /\ ENABLED (\E id \in 1..MaxTasks, data \in Patches : Edit(id, data))

\* a firing still waits for its delivery while a firing that took the lock after it
\* has ended with its message delivered, and a store call went through
C29_Witness ==
    \E k, m \in DOMAIN firings :
        /\ firings[k].pc = "sending"
        /\ firings[m].pc = "done"
        /\ firings[m].call > firings[k].call
        /\ firings[m].sent > Val(firings[k].task).publish_at.t
        /\ storeCalls > 0

\* C30: a wake-up for the queue entry of an active task launches a firing of that
\* task, however late it comes
C30_LateWakeUpStillFires ==
    [][ \A id \in DOMAIN jobs :
            (WakeUp(id) /\ FetchActive(tasks, id))
            => FiringsOf(firings', id) = FiringsOf(firings, id) + 1
      ]_vars

====
